---- MODULE Spec2Model ----
(***************************************************************************)
(* Model of the Numerov radial Schrodinger solver of                       *)
(* Second_notebook_SE_solver.ipynb (numerov_solve, square_well), and of    *)
(* the prime searches of the prime-checking notebook (brute_force,         *)
(* smarter_search, even_smarter_search), specification SpecPrimes.         *)
(*                                                                         *)
(* Numbers.  A float is an IEEE-754 binary64 value, as np.float64 and the  *)
(* Python float are: a sign, a 53-bit integer mantissa and an exponent,    *)
(* or a signed zero, a signed infinity or NaN.  Every arithmetic operator  *)
(* computes the exact result and rounds it to the nearest double, ties to  *)
(* even, and follows IEEE-754 for the special values (x/0 = +-inf, 0/0 =   *)
(* inf-inf = 0*inf = NaN, NaN is contagious).  numpy divides and           *)
(* multiplies without raising, so no arithmetic operator here raises.      *)
(* The mantissa is kept in limbs of 14 bits, whose products and column     *)
(* sums stay within 32-bit integers.                                       *)
(*                                                                         *)
(* Powers.  x ** n on a float is one call of the C library's pow, which    *)
(* does not promise the nearest double: where the exact power is no double *)
(* it returns one of the two doubles next to it, and which one depends on  *)
(* the library the interpreter is linked with.  The library is part of the *)
(* state (libm): it answers a call it has not seen with either double and  *)
(* a call it has seen as before.                                           *)
(*                                                                         *)
(* Arrays.  A numpy array is a sequence; the array index i of the source   *)
(* is position i+1 of the sequence (see At / Put).  Arrays that escape a   *)
(* call (the grid r, the wavefunction u) live in the heap; V_eff and f     *)
(* never leave the call and are kept in its frame.                         *)
(***************************************************************************)
EXTENDS Integers, Sequences, FiniteSets, TLC

\* ------------------------------------------------------------------ bounds
\* longest grid handed to numerov_solve (grids have 0..MaxN points)
MaxN == 4
\* the wavenumber argument k is -1 (k and k**2 differ in sign) or MaxK
MaxK == 0
\* the angular momentum l ranges over 0..MaxL
MaxL == 1
\* how many times one caller invokes numerov_solve (with the same arguments)
MaxRounds == 2

\* ------------------------------------------------- binary64 (np.float64)
\* A number of the source is an IEEE-754 double.  A finite double is
\* s * m * 2^e with the sign s in {1, -1}, the integer mantissa m < 2^53
\* held as four limbs of 14 bits, least significant first, and e >= EMin;
\* m >= 2^52 unless e = EMin (subnormal), and zero is m = 0, e = 0 with its
\* sign.  Every operation computes the exact result on limbs (eight of them
\* hold any intermediate value) and rounds it to nearest, ties to even, as
\* the hardware does.
Abs(x) == IF x < 0 THEN -x ELSE x

Sgn(x) == IF x < 0 THEN -1 ELSE 1

Min2(x, y) == IF x < y THEN x ELSE y

Max2(x, y) == IF x > y THEN x ELSE y

\* bits per limb, and the limb base
LimbBits == 14

Base == 16384

\* bits of the mantissa, and the least and greatest exponent of m * 2^e
Precision == 53

EMin == -1074

EMax == 971

Zero4 == <<0, 0, 0, 0>>

Zero8 == <<0, 0, 0, 0, 0, 0, 0, 0>>

\* 2^52 and 2^53 - 1 on four limbs
Half4 == <<0, 0, 0, 1024>>

Full4 == <<16383, 16383, 16383, 2047>>

\* the eight columns c (each possibly above the base, or negative) as
\* limbs: the carries moved up (the carry out of a negative column is
\* negative, a borrow)
Carried(c) ==
    LET t1 == c[1]
        t2 == c[2] + (t1 \div Base)
        t3 == c[3] + (t2 \div Base)
        t4 == c[4] + (t3 \div Base)
        t5 == c[5] + (t4 \div Base)
        t6 == c[6] + (t5 \div Base)
        t7 == c[7] + (t6 \div Base)
        t8 == c[8] + (t7 \div Base)
    IN  <<t1 % Base, t2 % Base, t3 % Base, t4 % Base,
          t5 % Base, t6 % Base, t7 % Base, t8 % Base>>

\* the four low limbs of w
Low4(w) == <<w[1], w[2], w[3], w[4]>>

\* x + y on eight limbs
BAdd(x, y) ==
    Carried(<<x[1] + y[1], x[2] + y[2], x[3] + y[3], x[4] + y[4],
              x[5] + y[5], x[6] + y[6], x[7] + y[7], x[8] + y[8]>>)

\* x - y on eight limbs, for x >= y
BSub(x, y) ==
    Carried(<<x[1] - y[1], x[2] - y[2], x[3] - y[3], x[4] - y[4],
              x[5] - y[5], x[6] - y[6], x[7] - y[7], x[8] - y[8]>>)

\* -1, 0, 1 as x < y, x = y, x > y, compared from limb j down
RECURSIVE CmpFrom(_, _, _)
CmpFrom(x, y, j) ==
    IF j = 0 THEN 0
    ELSE IF x[j] < y[j] THEN -1
    ELSE IF x[j] > y[j] THEN 1
    ELSE CmpFrom(x, y, j - 1)

Cmp(x, y) == CmpFrom(x, y, Len(x))

\* x * y of two mantissas: the column sums of the limb products, then the
\* carries
BMul(x, y) ==
    Carried(<<x[1] * y[1],
              (x[1] * y[2]) + (x[2] * y[1]),
              (x[1] * y[3]) + (x[2] * y[2]) + (x[3] * y[1]),
              (x[1] * y[4]) + (x[2] * y[3]) + (x[3] * y[2]) + (x[4] * y[1]),
              (x[2] * y[4]) + (x[3] * y[3]) + (x[4] * y[2]),
              (x[3] * y[4]) + (x[4] * y[3]),
              x[4] * y[4],
              0>>)

\* the number of bits of the limb v
Bits(v) ==
    IF v < 128
    THEN (IF v < 8
          THEN (IF v < 2 THEN v ELSE IF v < 4 THEN 2 ELSE 3)
          ELSE IF v < 32 THEN (IF v < 16 THEN 4 ELSE 5)
          ELSE IF v < 64 THEN 6 ELSE 7)
    ELSE (IF v < 1024
          THEN (IF v < 256 THEN 8 ELSE IF v < 512 THEN 9 ELSE 10)
          ELSE IF v < 4096 THEN (IF v < 2048 THEN 11 ELSE 12)
          ELSE IF v < 8192 THEN 13 ELSE 14)

\* the number of bits of x, from limb j down
RECURSIVE BitLenFrom(_, _)
BitLenFrom(x, j) ==
    IF j = 0 THEN 0
    ELSE IF x[j] # 0 THEN (LimbBits * (j - 1)) + Bits(x[j])
    ELSE BitLenFrom(x, j - 1)

BitLen(x) == BitLenFrom(x, Len(x))

\* limb j of x * 2^k, for xp = x with five zero limbs below it and four
\* above, ls = k \div LimbBits and p = 2^(k % LimbBits)
LimbLeft(xp, ls, p, j) ==
    ((xp[j + 5 - ls] * p) % Base) + (xp[j + 4 - ls] \div (Base \div p))

ShiftedLeft(xp, ls, p) ==
    <<LimbLeft(xp, ls, p, 1), LimbLeft(xp, ls, p, 2),
      LimbLeft(xp, ls, p, 3), LimbLeft(xp, ls, p, 4),
      LimbLeft(xp, ls, p, 5), LimbLeft(xp, ls, p, 6),
      LimbLeft(xp, ls, p, 7), LimbLeft(xp, ls, p, 8)>>

\* the mantissa x times 2^k on eight limbs, 0 <= k <= 4 * LimbBits
ShiftLeft(x, k) ==
    ShiftedLeft(<<0, 0, 0, 0, 0>> \o x \o Zero4, k \div LimbBits,
                2^(k % LimbBits))

\* limb j of x \div 2^k, for xp = x with zero limbs above it,
\* ls = k \div LimbBits and p = 2^(k % LimbBits)
LimbRight(xp, ls, p, j) ==
    (xp[j + ls] \div p) + ((xp[j + ls + 1] % p) * (Base \div p))

ShiftedRight(xp, ls, p) ==
    <<LimbRight(xp, ls, p, 1), LimbRight(xp, ls, p, 2),
      LimbRight(xp, ls, p, 3), LimbRight(xp, ls, p, 4)>>

\* x \div 2^k on four limbs, for x on eight limbs and 0 <= k <= 9 * LimbBits
\* (the quotient is below 2^56)
ShiftRight(x, k) ==
    ShiftedRight(x \o Zero8 \o Zero8, k \div LimbBits, 2^(k % LimbBits))

\* bit k of x (bit 0 the least significant), k below the bits of x
Bit(x, k) == (x[(k \div LimbBits) + 1] \div 2^(k % LimbBits)) % 2

\* some bit of x below bit k is set
AnyBelow(x, k) ==
    \E j \in 1..Len(x) :
        IF LimbBits * j <= k THEN x[j] # 0
        ELSE IF LimbBits * (j - 1) < k
             THEN x[j] % 2^(k - (LimbBits * (j - 1))) # 0
             ELSE FALSE

\* the mantissa q plus one
Inc(q) == Low4(Carried(<<q[1] + 1, q[2], q[3], q[4], 0, 0, 0, 0>>))

Zero == [k |-> "fin", s |-> 1, m |-> <<0, 0, 0, 0>>, e |-> 0]
NegZero == [k |-> "fin", s |-> -1, m |-> <<0, 0, 0, 0>>, e |-> 0]
One == [k |-> "fin", s |-> 1, m |-> <<0, 0, 0, 1024>>, e |-> -52]
PosInf == [k |-> "inf", s |-> 1, m |-> <<0, 0, 0, 0>>, e |-> 0]
NegInf == [k |-> "inf", s |-> -1, m |-> <<0, 0, 0, 0>>, e |-> 0]
NaN == [k |-> "nan", s |-> 1, m |-> <<0, 0, 0, 0>>, e |-> 0]

SignedZero(s) == IF s < 0 THEN NegZero ELSE Zero

SignedInf(s) == IF s < 0 THEN NegInf ELSE PosInf

IsNaN(a) == a.k = "nan"
IsInf(a) == a.k = "inf"
IsFinite(a) == a.k = "fin"
IsZero(a) == a.k = "fin" /\ a.m = Zero4

\* the double s * m * 2^e of a mantissa m that already fits; beyond EMax it
\* is an infinity
Fin(s, m, e) ==
    IF m = Zero4 THEN SignedZero(s)
    ELSE IF e > EMax THEN SignedInf(s)
    ELSE [k |-> "fin", s |-> s, m |-> m, e |-> e]

\* s * q * 2^e for a mantissa q cut from a longer one: q goes up by one
\* when the first bit cut off (the guard) is set and either a bit below it
\* (sticky) is or q is odd
Rounded(s, q, e, guard, sticky) ==
    IF ~(guard /\ (sticky \/ q[1] % 2 = 1)) THEN Fin(s, q, e)
    ELSE IF q = Full4 THEN Fin(s, Half4, e + 1)
    ELSE Fin(s, Inc(q), e)

\* s * x * 2^e for x of L > 0 bits with its sh lowest bits cut off (sh <= 0:
\* nothing is cut, and the mantissa is filled up as far as EMin allows)
Cut(s, x, e, L, sh) ==
    IF sh > L + 1 THEN SignedZero(s)
    ELSE IF sh <= 0
    THEN Fin(s, Low4(ShiftLeft(Low4(x), Min2(Precision - L, e - EMin))),
             e - Min2(Precision - L, e - EMin))
    ELSE Rounded(s, ShiftRight(x, sh), e + sh,
                 sh <= L /\ Bit(x, sh - 1) = 1, AnyBelow(x, sh - 1))

NearestOf(s, x, e, L) ==
    IF L = 0 THEN SignedZero(s)
    ELSE Cut(s, x, e, L, Max2(L - Precision, EMin - e))

\* the double nearest to s * x * 2^e, ties to even, for x on eight limbs: x
\* is cut to 53 bits (to fewer where the exponent would fall below EMin)
Nearest(s, x, e) == NearestOf(s, x, e, BitLen(x))

\* the limbs of the integer v, 0 <= v < 2^31
Limbs(v) ==
    <<v % Base, (v \div Base) % Base, v \div (Base * Base), 0, 0, 0, 0, 0>>

\* the integer n as a double (|n| < 2^31: exact)
Num(n) == Nearest(Sgn(n), Limbs(Abs(n)), 0)

Neg(a) == IF IsNaN(a) THEN a ELSE [a EXCEPT !.s = -a.s]

\* additional bits an exact sum keeps of the operand with the larger
\* exponent; an operand further below only makes the sum inexact
GuardBits == 4 * LimbBits

\* the double nearest to sx * x * 2^e + sy * y * 2^e
AddMagnitudes(sx, x, sy, y, e) ==
    IF sx = sy THEN Nearest(sx, BAdd(x, y), e)
    ELSE IF Cmp(x, y) = 0 THEN Zero
    ELSE IF Cmp(x, y) > 0 THEN Nearest(sx, BSub(x, y), e)
    ELSE Nearest(sy, BSub(y, x), e)

\* hi + lo for finite non-zero doubles, hi.e >= lo.e, hi moved up by dd bits
AddAligned(hi, lo, dd) ==
    AddMagnitudes(hi.s, ShiftLeft(hi.m, dd), lo.s,
                  IF hi.e - lo.e <= GuardBits THEN lo.m \o Zero4
                  ELSE <<1, 0, 0, 0, 0, 0, 0, 0>>,
                  hi.e - dd)

Add(a, b) ==
    IF IsNaN(a) \/ IsNaN(b) THEN NaN
    ELSE IF IsInf(a) /\ IsInf(b) THEN (IF a.s = b.s THEN a ELSE NaN)
    ELSE IF IsInf(a) THEN a
    ELSE IF IsInf(b) THEN b
    ELSE IF IsZero(a) /\ IsZero(b) THEN (IF a.s = b.s THEN a ELSE Zero)
    ELSE IF IsZero(a) THEN b
    ELSE IF IsZero(b) THEN a
    ELSE IF a.e >= b.e THEN AddAligned(a, b, Min2(a.e - b.e, GuardBits))
    ELSE AddAligned(b, a, Min2(b.e - a.e, GuardBits))

Sub(a, b) == Add(a, Neg(b))

Mul(a, b) ==
    IF IsNaN(a) \/ IsNaN(b) THEN NaN
    ELSE IF IsInf(a) \/ IsInf(b)
    THEN (IF IsZero(a) \/ IsZero(b) THEN NaN ELSE SignedInf(a.s * b.s))
    ELSE IF IsZero(a) \/ IsZero(b) THEN SignedZero(a.s * b.s)
    ELSE Nearest(a.s * b.s, BMul(a.m, b.m), a.e + b.e)

\* the finite non-zero double a with its mantissa moved up by t bits
FilledBy(a, t) == [m |-> Low4(ShiftLeft(a.m, t)), e |-> a.e - t]

\* a finite non-zero double with its mantissa brought to 56 bits, the top
\* limb filled (a subnormal has fewer than 53 bits to begin with)
Filled(a) == FilledBy(a, (4 * LimbBits) - BitLen(a.m))

\* d * q on eight limbs, for a mantissa d and one limb q
BMulLimb(d, q) ==
    Carried(<<d[1] * q, d[2] * q, d[3] * q, d[4] * q, 0, 0, 0, 0>>)

\* the quotient digit q, with t = q * dw, lowered until t fits below rb, and
\* the remainder rb - t
RECURSIVE Lower(_, _, _, _)
Lower(rb, dw, q, t) ==
    IF Cmp(t, rb) <= 0 THEN [q |-> q, r |-> Low4(BSub(rb, t))]
    ELSE Lower(rb, dw, q - 1, BSub(t, dw))

\* one digit of the long division by d (four limbs, the top limb at least
\* Base / 2) for a remainder r < d: the quotient digit of r * Base by d,
\* estimated from the two top limbs of r and the top limb of d (at most 2
\* too large) and lowered, and the new remainder
Digit(r, d) ==
    Lower(<<0, r[1], r[2], r[3], r[4], 0, 0, 0>>, d \o Zero4,
          Min2(Base - 1, ((r[4] * Base) + r[3]) \div d[4]),
          BMulLimb(d, Min2(Base - 1, ((r[4] * Base) + r[3]) \div d[4])))

\* n more digits of the long division of the remainder r by d, each doubled
\* and put below the columns out; after the last one, one is added to the
\* lowest column if a remainder is left (the sticky bit)
RECURSIVE Digits(_, _, _, _)
NextDigit(s, d, n, out) == Digits(s.r, d, n - 1, <<2 * s.q>> \o out)

Digits(r, d, n, out) ==
    IF n = 0
    THEN Carried(<<out[1] + (IF r = Zero4 THEN 0 ELSE 1), out[2], out[3],
                   out[4], out[5], 0, 0, 0>>)
    ELSE NextDigit(Digit(r, d), d, n, out)

\* floor(x * Base^4 / d) doubled, plus one if the division leaves a
\* remainder, for mantissas x, d of 56 bits, on eight limbs
Quotient(x, d) ==
    IF Cmp(x, d) >= 0
    THEN Digits(Low4(BSub(x \o Zero4, d \o Zero4)), d, 4, <<2>>)
    ELSE Digits(x, d, 4, <<0>>)

\* a / b for finite non-zero doubles with filled mantissas x, y
DivFilled(s, x, y) ==
    Nearest(s, Quotient(x.m, y.m), x.e - y.e - GuardBits - 1)

Div(a, b) ==
    IF IsNaN(a) \/ IsNaN(b) THEN NaN
    ELSE IF IsInf(a) THEN (IF IsInf(b) THEN NaN ELSE SignedInf(a.s * b.s))
    ELSE IF IsInf(b) THEN SignedZero(a.s * b.s)
    ELSE IF IsZero(b) THEN (IF IsZero(a) THEN NaN ELSE SignedInf(a.s * b.s))
    ELSE IF IsZero(a) THEN SignedZero(a.s * b.s)
    ELSE DivFilled(a.s * b.s, Filled(a), Filled(b))

\* |a| < |b| for finite non-zero doubles
MagLess(a, b) == a.e < b.e \/ (a.e = b.e /\ Cmp(a.m, b.m) < 0)

\* a < b as numpy compares: any comparison with NaN is False, -0.0 = 0.0
Less(a, b) ==
    IF IsNaN(a) \/ IsNaN(b) \/ a = b THEN FALSE
    ELSE IF IsInf(a) THEN a.s < 0
    ELSE IF IsInf(b) THEN b.s > 0
    ELSE IF IsZero(a) THEN ~IsZero(b) /\ b.s > 0
    ELSE IF IsZero(b) THEN a.s < 0
    ELSE IF a.s # b.s THEN a.s < 0
    ELSE IF a.s > 0 THEN MagLess(a, b)
    ELSE MagLess(b, a)

\* ------------------------------------------------------ the power a ** n
\* term j of column k of the product w * y, for limbs w (any number of
\* them) and a mantissa y
Term(w, y, k, j) ==
    IF (k - j + 1) \in 1..Len(w) THEN w[k - j + 1] * y[j] ELSE 0

Column(w, y, k) ==
    Term(w, y, k, 1) + Term(w, y, k, 2) + Term(w, y, k, 3) + Term(w, y, k, 4)

\* the limbs of w * y from column k up, carry being what the columns below
\* carry over
RECURSIVE WideFrom(_, _, _, _)
WideFrom(w, y, k, carry) ==
    IF k > Len(w) + 4 THEN <<>>
    ELSE <<(Column(w, y, k) + carry) % Base>>
           \o WideFrom(w, y, k + 1, (Column(w, y, k) + carry) \div Base)

WideMul(w, y) == WideFrom(w, y, 1, 0)

\* m^n exactly, on 4 * n limbs, n >= 1
RECURSIVE PowLimbs(_, _)
PowLimbs(m, n) == IF n = 1 THEN m ELSE WideMul(PowLimbs(m, n - 1), m)

\* how many limbs below its top eight the number w has (w on eight limbs or
\* more)
Spare(w) == Max2(0, ((BitLen(w) + LimbBits - 1) \div LimbBits) - 8)

\* the top eight limbs of w, d limbs being below them; the lowest is made
\* odd if a limb below is not zero, so that cutting the eight to a mantissa
\* finds the same bits and the same inexactness as cutting w would
TopEight(w, d) ==
    <<IF w[d + 1] % 2 = 0 /\ (\E j \in 1..d : w[j] # 0)
      THEN w[d + 1] + 1 ELSE w[d + 1],
      w[d + 2], w[d + 3], w[d + 4], w[d + 5], w[d + 6], w[d + 7], w[d + 8]>>

\* s * x * 2^e (x of L > 0 bits on eight limbs) if that is a double, else
\* the double next to it toward zero (up FALSE) or away from zero (up TRUE),
\* sh being the number of bits that do not fit
Beside(s, x, e, L, sh, up) ==
    IF sh <= 0 THEN Cut(s, x, e, L, sh)
    ELSE Rounded(s, IF sh > L THEN Zero4 ELSE ShiftRight(x, sh), e + sh,
                 up /\ AnyBelow(x, sh), TRUE)

\* the doubles on either side of s * x * 2^e
BothSides(s, x, e, L) ==
    {Beside(s, x, e, L, Max2(L - Precision, EMin - e), up) : up \in BOOLEAN}

\* the doubles on either side of s * w * 2^e, for w on eight limbs or more
Neighbours(s, w, e, d) ==
    BothSides(s, TopEight(w, d), e + (LimbBits * d), BitLen(TopEight(w, d)))

\* the sign of a ** n
PowSign(a, n) == IF a.s < 0 /\ n % 2 = 1 THEN -1 ELSE 1

\* x ** n for a double x and an integer n >= 0, as np.float64.__pow__
\* computes it: one call of the C library's pow.  The C standard fixes the
\* special cases (x ** 0 = 1 even for NaN, the powers of zeros and
\* infinities with the sign of an odd power); for the others the library
\* returns a double less than one unit in the last place from the exact
\* power without promising the nearest one: the power itself where it is a
\* double, else either of the two doubles it lies between.
PowOutcomes(a, n) ==
    IF n = 0 THEN {One}
    ELSE IF IsNaN(a) THEN {NaN}
    ELSE IF IsInf(a) THEN {SignedInf(PowSign(a, n))}
    ELSE IF IsZero(a) THEN {SignedZero(PowSign(a, n))}
    ELSE IF n = 1 THEN {a}
    ELSE Neighbours(PowSign(a, n), PowLimbs(a.m, n), a.e * n,
                    Spare(PowLimbs(a.m, n)))

\* A C library, as far as a run has used it, is the function lib from the
\* <<base, exponent>> pairs its pow has been called with to the double it
\* returned: a second call with the same arguments returns what the first
\* did.  Linked is the set of libraries that agree with lib and have
\* answered the calls as well.
RECURSIVE Linked(_, _)
Linked(lib, calls) ==
    IF calls = {} THEN {lib}
    ELSE LET p == CHOOSE q \in calls : TRUE
         IN  IF p \in DOMAIN lib THEN Linked(lib, calls \ {p})
             ELSE UNION {Linked([q \in DOMAIN lib \cup {p} |->
                                    IF q = p THEN v ELSE lib[q]],
                                calls \ {p}) :
                         v \in PowOutcomes(p[1], p[2])}

\* a ** n, as the library lib computes it
Pow(lib, a, n) == lib[<<a, n>>]

\* np.square, elementwise
Square(a) == Mul(a, a)

\* ------------------------------------------------------------------ arrays
\* a[i] with Python's index rule: a negative index counts from the end
Pos(a, i) == IF i < 0 THEN i + Len(a) + 1 ELSE i + 1

InRange(a, i) == Pos(a, i) \in 1..Len(a)

At(a, i) == a[Pos(a, i)]

\* a[i] = x
Put(a, i, x) == [a EXCEPT ![Pos(a, i)] = x]

\* np.zeros(n)
Zeros(n) == [j \in 1..n |-> Zero]

\* range(a, b) as the sequence a, a+1, ..., b-1
Range(a, b) == [j \in 1..(IF b > a THEN b - a ELSE 0) |-> a + j - 1]

\* ------------------------------------------------------------ the potential
\* np.where(r < r_0, V_0, 0) over the whole array r
square_well(r, r_0, V_0) ==
    [j \in 1..Len(r) |-> IF Less(r[j], r_0) THEN V_0 ELSE Zero]

\* the callable V handed to numerov_solve: square_well with its parameters
\* bound, p = <<r_0, V_0>>
ApplyV(p, r) == square_well(r, p[1], p[2])

\* square_well's defaults r_0 = 4, V_0 = -10
DefaultWell == <<Num(4), Num(-10)>>

\* ------------------------------------------- numerov_solve, line by line
\* h = r[1] - r[0]
StepSize(r) == Sub(At(r, 1), At(r, 0))

\* N = r.shape[0]
Shape0(r) == Len(r)

\* the call of pow that r[1]**(l + 1) makes
SeedCall(r, l) == <<At(r, 1), l + 1>>

\* r[1]**(l + 1)
Seed(lib, r, l) == Pow(lib, At(r, 1), l + 1)

\* a slip in the centrifugal term: l * (l + 1) / r, the square forgotten
EffectivePotentialUnsquared(p, r, l) ==
    LET v == ApplyV(p, r)
        cf == [j \in 1..Len(r) |-> Div(Num(l * (l + 1)), r[j])]
    IN  [j \in 1..Len(r) |-> Add(v[j], cf[j])]

\* V_eff = V(r) + (l * (l + 1) / np.square(r)), elementwise over the grid
EffectivePotential(p, r, l) ==
    LET v == ApplyV(p, r)
        sq == [j \in 1..Len(r) |-> Square(r[j])]
        cf == [j \in 1..Len(r) |-> Div(Num(l * (l + 1)), sq[j])]
    IN  [j \in 1..Len(r) |-> Add(v[j], cf[j])]

\* f = k**2 - V_eff, elementwise
Driver(k, V_eff) ==
    [j \in 1..Len(V_eff) |-> Sub(Mul(Num(k), Num(k)), V_eff[j])]

\* a slip in the loop bounds: range(0, N - 1), whose first pass assigns u[1]
LoopRangeFromZero(N) == Range(0, N - 1)

\* range(1, N - 1)
LoopRange(N) == Range(1, N - 1)

\* the call of pow that h**2 makes
StepCall(h) == <<h, 2>>

\* 1 + (h**2 / 12) * f[j]
Weight(lib, h, f, j) ==
    Add(One, Mul(Div(Pow(lib, h, 2), Num(12)), At(f, j)))

\* 2 * (1 - (5 * h**2 / 12) * f[i])
Centre(lib, h, f, i) ==
    Mul(Num(2),
        Sub(One, Mul(Div(Mul(Num(5), Pow(lib, h, 2)), Num(12)), At(f, i))))

\* a slip in the recurrence: the denominator taken at f[i], not at f[i + 1]
NextUDenominatorAtI(lib, h, f, u, i) ==
    Div(Sub(Mul(Centre(lib, h, f, i), At(u, i)),
            Mul(Weight(lib, h, f, i - 1), At(u, i - 1))),
        Weight(lib, h, f, i))

\* the value the loop body assigns to u[i + 1]
NextU(lib, h, f, u, i) ==
    Div(Sub(Mul(Centre(lib, h, f, i), At(u, i)),
            Mul(Weight(lib, h, f, i - 1), At(u, i - 1))),
        Weight(lib, h, f, i + 1))

\* the loop body for the loop variable i: u[i + 1] = ...
LoopBody(lib, h, f, u, i) == Put(u, i + 1, NextU(lib, h, f, u, i))

\* the whole for loop run on its own, from position it of its range
RECURSIVE RunLoop(_, _, _, _, _, _)
RunLoop(lib, h, f, u, rng, it) ==
    IF it > Len(rng) THEN u
    ELSE RunLoop(lib, h, f, LoopBody(lib, h, f, u, rng[it]), rng, it + 1)

\* numerov_solve run alone with the library lib, start to end: the array u
\* it returns (val), or the exception r[1] raises on a grid of fewer than
\* two points (exc)
NumerovSolve(lib, p, r, k, l) ==
    IF ~InRange(r, 1) THEN [exc |-> "IndexError", val |-> <<>>]
    ELSE LET h == StepSize(r)
             N == Shape0(r)
             u == Put(Put(Zeros(N), 0, Zero), 1, Seed(lib, r, l))
             f == Driver(k, EffectivePotential(p, r, l))
         IN  [exc |-> "", val |-> RunLoop(lib, h, f, u, LoopRange(N), 1)]

\* ------------------------------------------------------------ the program
\* Two callers share one grid object and one potential; each calls
\* numerov_solve with its own k and l.  A call advances one source line at a
\* time, so that calls of different threads can interleave between lines.
VARIABLES
    heap,      \* address -> array: the grid and every wavefunction array
    pot,       \* the potential V both callers pass, <<r_0, V_0>>
    given,     \* caller -> the grid's entries when its call was made
    pc,        \* caller -> the line its call is about to execute
    arg,       \* caller -> [k, l] of its call
    frame,     \* caller -> the locals of its call: h, N, u, V_eff, f, it
    assigned,  \* caller -> the indices of u its call has assigned, in order
    results,   \* caller -> what its finished calls returned or raised
    dirty,     \* addresses of returned arrays the caller has written to
    libm       \* the C library of the run: what its pow has returned so far

vars == <<heap, pot, given, pc, arg, frame, assigned, results, dirty, libm>>

Callers == {1, 2}

\* the address of the callers' grid
GridRef == <<0, 0>>

\* the grid start, start+1, ..., start+n-1 (uniform, h = 1)
GridOf(start, n) == [j \in 1..n |-> Num(start + j - 1)]

\* the grid 0.1, 0.2, 0.3 (one pass of the loop): neither its step nor
\* its points are integers, and their powers are not doubles, so that pow
\* has to round
Tenths == <<Div(Num(1), Num(10)), Div(Num(2), Num(10)), Div(Num(3), Num(10))>>

Grids == {GridOf(s, n) : s \in {0, 1}, n \in 0..MaxN} \cup {Tenths}

\* the notebook's well, and a repulsive one of height 12 over the same range
Potentials == {DefaultWell, <<Num(4), Num(12)>>}

Ks == {-1, MaxK}

Ls == 0..MaxL

\* a local name not bound yet
Unbound == <<>>

NoFrame == [h |-> Unbound, N |-> Unbound, u |-> Unbound,
            V_eff |-> Unbound, f |-> Unbound, it |-> Unbound]

\* a slip in the allocation: u = r, the wavefunction written into the grid
AliasGrid(hp, c, n, N) == [ref |-> GridRef, heap |-> hp]

\* a slip in the allocation: one module-level buffer that every call zeroes
\* and fills
StaticBuffer(hp, c, n, N) ==
    [ref  |-> <<0, 1>>,
     heap |-> [x \in DOMAIN hp \cup {<<0, 1>>} |->
                  IF x = <<0, 1>> THEN Zeros(N) ELSE hp[x]]]

\* u = np.zeros(N) in the n-th call of caller c: the heap with a new array
\* of N zeros in it, at an address <<c, n>> no other allocation has, and
\* that address
NewZeros(hp, c, n, N) ==
    [ref  |-> <<c, n>>,
     heap |-> [x \in DOMAIN hp \cup {<<c, n>>} |->
                  IF x = <<c, n>> THEN Zeros(N) ELSE hp[x]]]

\* the caller's grid, as the call reads it through its parameter r
R == heap[GridRef]

Round(c) == Len(results[c]) + 1

Init ==
    /\ heap \in {[a \in {GridRef} |-> g] : g \in Grids}
    /\ pot \in Potentials
    /\ given = [c \in Callers |-> <<>>]
    /\ pc = [c \in Callers |-> "idle"]
    /\ arg = [c \in Callers |-> [k |-> 0, l |-> 0]]
    /\ frame = [c \in Callers |-> NoFrame]
    /\ assigned = [c \in Callers |-> <<>>]
    /\ results = [c \in Callers |-> <<>>]
    /\ dirty = {}
    /\ libm = <<>>

\* the caller calls numerov_solve(V, r, k, l)
Invoke(c) ==
    /\ pc[c] = "idle"
    /\ \E k \in Ks, l \in Ls : arg' = [arg EXCEPT ![c] = [k |-> k, l |-> l]]
    /\ given' = [given EXCEPT ![c] = heap[GridRef]]
    /\ pc' = [pc EXCEPT ![c] = "L82"]
    /\ UNCHANGED <<heap, pot, frame, assigned, results, dirty, libm>>

\* caller 1 calls again with the arguments of its finished call; caller 2
\* is the other caller, whose one call comes before, between or after
Repeat(c) ==
    /\ c = 1
    /\ pc[c] \in {"returned", "raised"}
    /\ Round(c) <= MaxRounds
    /\ given' = [given EXCEPT ![c] = heap[GridRef]]
    /\ pc' = [pc EXCEPT ![c] = "L82"]
    /\ frame' = [frame EXCEPT ![c] = NoFrame]
    /\ assigned' = [assigned EXCEPT ![c] = <<>>]
    /\ UNCHANGED <<heap, pot, arg, results, dirty, libm>>

\* h = r[1] - r[0]; r[1] raises IndexError on a grid of fewer than 2 points
L82(c) ==
    /\ pc[c] = "L82"
    /\ IF InRange(R, 1)
       THEN /\ frame' = [frame EXCEPT ![c].h = StepSize(R)]
            /\ pc' = [pc EXCEPT ![c] = "L83"]
            /\ UNCHANGED results
       ELSE /\ pc' = [pc EXCEPT ![c] = "raised"]
            /\ results' = [results EXCEPT ![c] =
                   Append(@, [exc |-> "IndexError", u |-> Unbound, val |-> Unbound])]
            /\ UNCHANGED frame
    /\ UNCHANGED <<heap, pot, given, arg, assigned, dirty, libm>>

\* N = r.shape[0]
L83(c) ==
    /\ pc[c] = "L83"
    /\ frame' = [frame EXCEPT ![c].N = Shape0(R)]
    /\ pc' = [pc EXCEPT ![c] = "L86"]
    /\ UNCHANGED <<heap, pot, given, arg, assigned, results, dirty, libm>>

\* u = np.zeros(N)
L86(c) ==
    /\ pc[c] = "L86"
    /\ LET new == NewZeros(heap, c, Round(c), frame[c].N)
       IN  /\ heap' = new.heap
           /\ frame' = [frame EXCEPT ![c].u = new.ref]
    /\ pc' = [pc EXCEPT ![c] = "L89"]
    /\ UNCHANGED <<pot, given, arg, assigned, results, dirty, libm>>

\* u[0] = 0.0
L89(c) ==
    /\ pc[c] = "L89"
    /\ heap' = [heap EXCEPT ![frame[c].u] = Put(@, 0, Zero)]
    /\ assigned' = [assigned EXCEPT ![c] = Append(@, 0)]
    /\ pc' = [pc EXCEPT ![c] = "L90"]
    /\ UNCHANGED <<pot, given, arg, frame, results, dirty, libm>>

\* u[1] = r[1]**(l + 1): pow is called, and answers as the library does
L90(c) ==
    /\ pc[c] = "L90"
    /\ \E lib \in Linked(libm, {SeedCall(R, arg[c].l)}) :
           /\ libm' = lib
           /\ heap' = [heap EXCEPT ![frame[c].u] =
                          Put(@, 1, Seed(lib, R, arg[c].l))]
    /\ assigned' = [assigned EXCEPT ![c] = Append(@, 1)]
    /\ pc' = [pc EXCEPT ![c] = "L93"]
    /\ UNCHANGED <<pot, given, arg, frame, results, dirty>>

\* V_eff = V(r) + (l * (l + 1) / np.square(r))
L93(c) ==
    /\ pc[c] = "L93"
    /\ frame' = [frame EXCEPT ![c].V_eff = EffectivePotential(pot, R, arg[c].l)]
    /\ pc' = [pc EXCEPT ![c] = "L96"]
    /\ UNCHANGED <<heap, pot, given, arg, assigned, results, dirty, libm>>

\* f = k**2 - V_eff; the for statement then creates its range iterator
L96(c) ==
    /\ pc[c] = "L96"
    /\ frame' = [frame EXCEPT ![c].f = Driver(arg[c].k, frame[c].V_eff),
                              ![c].it = 1]
    /\ pc' = [pc EXCEPT ![c] = "L99"]
    /\ UNCHANGED <<heap, pot, given, arg, assigned, results, dirty, libm>>

\* for i in range(1, N - 1): one pass through the body, u[i + 1] = ...,
\* which calls pow for h**2
L100(c) ==
    /\ pc[c] = "L99"
    /\ frame[c].it <= Len(LoopRange(frame[c].N))
    /\ \E lib \in Linked(libm, {StepCall(frame[c].h)}) :
           /\ libm' = lib
           /\ heap' = [heap EXCEPT ![frame[c].u] =
                          LoopBody(lib, frame[c].h, frame[c].f, @,
                                   LoopRange(frame[c].N)[frame[c].it])]
    /\ assigned' = [assigned EXCEPT ![c] =
           Append(@, LoopRange(frame[c].N)[frame[c].it] + 1)]
    /\ frame' = [frame EXCEPT ![c].it = @ + 1]
    /\ UNCHANGED <<pot, given, pc, arg, results, dirty>>

\* the range is exhausted: the loop ends
L99Exit(c) ==
    /\ pc[c] = "L99"
    /\ frame[c].it > Len(LoopRange(frame[c].N))
    /\ pc' = [pc EXCEPT ![c] = "L104"]
    /\ UNCHANGED <<heap, pot, given, arg, frame, assigned, results, dirty,
                   libm>>

\* return r, u
L104(c) ==
    /\ pc[c] = "L104"
    /\ results' = [results EXCEPT ![c] =
           Append(@, [exc |-> "", u |-> frame[c].u, val |-> heap[frame[c].u]])]
    /\ pc' = [pc EXCEPT ![c] = "returned"]
    /\ UNCHANGED <<heap, pot, given, arg, frame, assigned, dirty, libm>>

\* the caller overwrites the last entry of the array its last call returned
\* (u[-1] = 7.0), once
CallerWrite(c) ==
    /\ pc[c] = "returned"
    /\ dirty = {}
    /\ LET a == results[c][Len(results[c])].u
       IN  /\ heap' = [heap EXCEPT ![a] = Put(@, -1, Num(7))]
           /\ dirty' = dirty \cup {a}
    /\ UNCHANGED <<pot, given, pc, arg, frame, assigned, results, libm>>

\* a call of caller c is in progress
Busy(c) == pc[c] \notin {"idle", "returned", "raised"}

\* one line of the call of caller c
Line(c) ==
    \/ L82(c)
    \/ L83(c)
    \/ L86(c)
    \/ L89(c)
    \/ L90(c)
    \/ L93(c)
    \/ L96(c)
    \/ L100(c)
    \/ L99Exit(c)
    \/ L104(c)

\* no call of another caller is in progress
Alone(c) == \A d \in Callers \ {c} : ~Busy(d)

\* The notebook as it runs: single-threaded, one call at a time.  Between
\* calls either caller may call (again) or write to an array it got back.
Call(c) == Alone(c) /\ Invoke(c)

CallAgain(c) == Alone(c) /\ Repeat(c)

Write(c) == Alone(c) /\ CallerWrite(c)

Next == \E c \in Callers : Call(c) \/ CallAgain(c) \/ Write(c) \/ Line(c)

Spec == Init /\ [][Next]_vars

\* One thread per caller, no coordination: the calls interleave line by line.
NextConcurrent == \E c \in Callers : Invoke(c) \/ Line(c)

SpecConcurrent == Init /\ [][NextConcurrent]_vars

\* ------------------------------------------- the prime-checking notebook
\* The second notebook: three searches for the indices of the primes in an
\* array of integers, run cell after cell on the same test array.  Its
\* integers are plain integers (none of them leaves 64 bits here).
MaxLen == 2

MaxVal == 25

MaxNeg == 2

\* int(np.sqrt(n)) for n >= 0, the square root cut to an integer: s counts
\* up while its successor's square still fits
RECURSIVE SqrtFrom(_, _)
SqrtFrom(n, s) == IF (s + 1) * (s + 1) > n THEN s ELSE SqrtFrom(n, s + 1)

IntSqrt(n) == SqrtFrom(n, 0)

\* the for/else over the trial divisors of n: TRUE when the loop ends
\* without break, i.e. no trial i has n % i == 0
NoBreak(n, trials) == \A j \in 1..Len(trials) : n % trials[j] # 0

\* a slip in the trial range: range(2, n + 1), n itself tried as a divisor
BruteTrialsThroughN(n) == Range(2, n + 1)

\* range(2, ns[index] - 1)
BruteTrials(n) == Range(2, n - 1)

\* brute_force's loop from index on, prime_indices being the list so far
RECURSIVE BruteFrom(_, _, _)
BruteFrom(ns, index, prime_indices) ==
    IF index >= Len(ns) THEN prime_indices
    ELSE IF At(ns, index) < 2
         THEN BruteFrom(ns, index + 1, prime_indices)
         ELSE IF NoBreak(At(ns, index), BruteTrials(At(ns, index)))
              THEN BruteFrom(ns, index + 1, Append(prime_indices, index))
              ELSE BruteFrom(ns, index + 1, prime_indices)

brute_force(ns) == BruteFrom(ns, 0, <<>>)

\* a slip in the trial range: range(2, int(np.sqrt(n))), the root left out
SmarterTrialsBelowRoot(n) == Range(2, IntSqrt(n))

\* range(2, int(np.sqrt(ns[index])) + 1)
SmarterTrials(n) == Range(2, IntSqrt(n) + 1)

\* smarter_search's loop from index on
RECURSIVE SmarterFrom(_, _, _)
SmarterFrom(ns, index, prime_indices) ==
    IF index >= Len(ns) THEN prime_indices
    ELSE IF At(ns, index) < 2
         THEN SmarterFrom(ns, index + 1, prime_indices)
         ELSE IF NoBreak(At(ns, index), SmarterTrials(At(ns, index)))
              THEN SmarterFrom(ns, index + 1, Append(prime_indices, index))
              ELSE SmarterFrom(ns, index + 1, prime_indices)

smarter_search(ns) == SmarterFrom(ns, 0, <<>>)

\* np.max(ns) of a non-empty array
RECURSIVE MaxFrom(_, _, _)
MaxFrom(ns, j, m) ==
    IF j > Len(ns) THEN m
    ELSE MaxFrom(ns, j + 1, IF ns[j] > m THEN ns[j] ELSE m)

Max(ns) == MaxFrom(ns, 2, ns[1])

\* np.ones(n, dtype = bool), n >= 0
Ones(n) == [j \in 1..n |-> TRUE]

\* a[start:stop:step] = False for start, stop >= 0 and step >= 1; a slice
\* reaching past the end of the array is cut to it
ClearSlice(a, start, stop, step) ==
    [j \in 1..Len(a) |->
        IF j - 1 >= start /\ j - 1 < stop /\ (j - 1 - start) % step = 0
        THEN FALSE ELSE a[j]]

\* a slip in the loop bound: range(2, int(np.sqrt(max_n))), the root left out
SieveRangeBelowRoot(max_n) == Range(2, IntSqrt(max_n))

\* range(2, int(np.sqrt(max_n)) + 1)
SieveRange(max_n) == Range(2, IntSqrt(max_n) + 1)

\* if sieve[i]: sieve[i*i:max_n + 1:i] = False
MarkPass(sieve, i, max_n) ==
    IF At(sieve, i) THEN ClearSlice(sieve, i * i, max_n + 1, i) ELSE sieve

\* np.nonzero(a)[0]: the indices of the true entries, increasing
Nonzero(a) == SelectSeq(Range(0, Len(a)), LAMBDA i : At(a, i))

\* the values of the array a, as a set
Values(a) == {a[j] : j \in 1..Len(a)}

\* the elements of the set S of integers in increasing order
RECURSIVE Sorted(_)
Sorted(S) ==
    IF S = {} THEN <<>>
    ELSE LET m == CHOOSE x \in S : \A y \in S : x <= y
         IN  <<m>> \o Sorted(S \ {m})

\* np.intersect1d(a, b): the sorted, unique values that are in both
Intersect1d(a, b) == Sorted(Values(a) \cap Values(b))

\* np.isin(a, b)
IsIn(a, b) == [j \in 1..Len(a) |-> a[j] \in Values(b)]

\* The notebook runs on the machine state declared above: heap holds the
\* test array, pc the cell or line about to run, frame the locals of the
\* running call and results what each search returned or raised, by name.
\* The solver's pot, given, arg, assigned and dirty are not in play.
TestArrayRef == <<0, 0>>

test_array == heap[TestArrayRef]

Ints == (-MaxNeg)..MaxVal

Arrays == UNION {[1..n -> Ints] : n \in 0..MaxLen}

NoLocals == [max_n |-> Unbound, sieve |-> Unbound, rng |-> Unbound,
             it |-> Unbound, primes |-> Unbound, primes_in_ns |-> Unbound]

\* results with the outcome of the call of fn added
Outcome(fn, exc, val) ==
    [x \in DOMAIN results \cup {fn} |->
        IF x = fn THEN [exc |-> exc, val |-> val] ELSE results[x]]

InitPrimes ==
    /\ heap \in {[a \in {TestArrayRef} |-> ns] : ns \in Arrays}
    /\ pc = "cell137"
    /\ frame = NoLocals
    /\ results = <<>>
    /\ pot = DefaultWell
    /\ given = <<>>
    /\ arg = <<>>
    /\ assigned = <<>>
    /\ dirty = {}
    /\ libm = <<>>

\* the cell brute_force(test_array)
Cell137 ==
    /\ pc = "cell137"
    /\ results' = Outcome("brute_force", "", brute_force(test_array))
    /\ pc' = "cell188"
    /\ UNCHANGED <<heap, pot, given, arg, frame, assigned, dirty, libm>>

\* the cell smarter_search(test_array)
Cell188 ==
    /\ pc = "cell188"
    /\ results' = Outcome("smarter_search", "", smarter_search(test_array))
    /\ pc' = "cell232"
    /\ UNCHANGED <<heap, pot, given, arg, frame, assigned, dirty, libm>>

\* the cell even_smarter_search(test_array): the call is made
Cell232 ==
    /\ pc = "cell232"
    /\ frame' = NoLocals
    /\ pc' = "L211"
    /\ UNCHANGED <<heap, pot, given, arg, assigned, results, dirty, libm>>

\* max_n = np.max(ns); the maximum of an empty array raises ValueError
L211 ==
    /\ pc = "L211"
    /\ IF Len(test_array) = 0
       THEN /\ results' = Outcome("even_smarter_search", "ValueError", Unbound)
            /\ pc' = "done"
            /\ UNCHANGED frame
       ELSE /\ frame' = [frame EXCEPT !.max_n = Max(test_array)]
            /\ pc' = "L214"
            /\ UNCHANGED results
    /\ UNCHANGED <<heap, pot, given, arg, assigned, dirty, libm>>

\* sieve = np.ones(max_n + 1, dtype = bool); a negative length raises
\* ValueError
L214 ==
    /\ pc = "L214"
    /\ IF frame.max_n + 1 < 0
       THEN /\ results' = Outcome("even_smarter_search", "ValueError", Unbound)
            /\ pc' = "done"
            /\ UNCHANGED frame
       ELSE /\ frame' = [frame EXCEPT !.sieve = Ones(frame.max_n + 1)]
            /\ pc' = "L215"
            /\ UNCHANGED results
    /\ UNCHANGED <<heap, pot, given, arg, assigned, dirty, libm>>

\* sieve[0:2] = False
L215 ==
    /\ pc = "L215"
    /\ frame' = [frame EXCEPT !.sieve = ClearSlice(@, 0, 2, 1)]
    /\ pc' = "L216"
    /\ UNCHANGED <<heap, pot, given, arg, assigned, results, dirty, libm>>

\* for i in range(2, int(np.sqrt(max_n)) + 1): the range is built; np.sqrt
\* of a negative max_n is NaN, and int(NaN) raises ValueError
L216 ==
    /\ pc = "L216"
    /\ IF frame.max_n < 0
       THEN /\ results' = Outcome("even_smarter_search", "ValueError", Unbound)
            /\ pc' = "done"
            /\ UNCHANGED frame
       ELSE /\ frame' = [frame EXCEPT !.rng = SieveRange(frame.max_n), !.it = 1]
            /\ pc' = "L217"
            /\ UNCHANGED results
    /\ UNCHANGED <<heap, pot, given, arg, assigned, dirty, libm>>

\* one pass of the marking loop, for the next i of the range
L217 ==
    /\ pc = "L217"
    /\ frame.it <= Len(frame.rng)
    /\ frame' = [frame EXCEPT
                    !.sieve = MarkPass(@, frame.rng[frame.it], frame.max_n),
                    !.it = @ + 1]
    /\ UNCHANGED <<heap, pot, given, pc, arg, assigned, results, dirty, libm>>

\* the range is exhausted: the marking loop ends
L216Exit ==
    /\ pc = "L217"
    /\ frame.it > Len(frame.rng)
    /\ pc' = "L219"
    /\ UNCHANGED <<heap, pot, given, arg, frame, assigned, results, dirty,
                   libm>>

\* primes = np.nonzero(sieve)[0]
L219 ==
    /\ pc = "L219"
    /\ frame' = [frame EXCEPT !.primes = Nonzero(frame.sieve)]
    /\ pc' = "L220"
    /\ UNCHANGED <<heap, pot, given, arg, assigned, results, dirty, libm>>

\* primes_in_ns = np.intersect1d(primes, ns)
L220 ==
    /\ pc = "L220"
    /\ frame' = [frame EXCEPT
                    !.primes_in_ns = Intersect1d(frame.primes, test_array)]
    /\ pc' = "L221"
    /\ UNCHANGED <<heap, pot, given, arg, assigned, results, dirty, libm>>

\* return np.nonzero(np.isin(ns, primes_in_ns))[0]
L221 ==
    /\ pc = "L221"
    /\ results' = Outcome("even_smarter_search", "",
                          Nonzero(IsIn(test_array, frame.primes_in_ns)))
    /\ pc' = "done"
    /\ UNCHANGED <<heap, pot, given, arg, frame, assigned, dirty, libm>>

NextPrimes ==
    \/ Cell137
    \/ Cell188
    \/ Cell232
    \/ L211
    \/ L214
    \/ L215
    \/ L216
    \/ L217
    \/ L216Exit
    \/ L219
    \/ L220
    \/ L221

SpecPrimes == InitPrimes /\ [][NextPrimes]_vars

\* ------------------------------------------------------------- the claims
\* what the last finished call of caller c returned or raised
Last(c) == results[c][Len(results[c])]

\* the call of caller c has executed u[0] = 0.0 and has not returned yet
SeededZero(c) == pc[c] \in {"L90", "L93", "L96", "L99", "L104"}

\* ... and has executed u[1] = r[1]**(l + 1) as well
SeededOne(c) == pc[c] \in {"L93", "L96", "L99", "L104"}

\* 1 + h^2/12 * x, as the recurrence is written in the specification, h^2
\* being h**2 as the library of the run computes it
W12(h, x) == Add(One, Mul(Div(Pow(libm, h, 2), Num(12)), x))

\* 2 * (1 - 5*h^2/12 * x)
C12(h, x) ==
    Mul(Num(2), Sub(One, Mul(Div(Mul(Num(5), Pow(libm, h, 2)), Num(12)), x)))

\* the seeds of the call of caller c, u[1] being seed: set and not yet
\* returned, they are in u; returned, they are in the array returned
SeedsKept(c, seed) ==
    /\ SeededZero(c) => At(heap[frame[c].u], 0) = Zero
    /\ SeededOne(c) => At(heap[frame[c].u], 1) = seed
    /\ Len(given[c]) >= 2 => pc[c] # "raised"
    /\ \A m \in 1..Len(results[c]) :
           results[c][m].exc = "" =>
               /\ At(results[c][m].val, 0) = Zero
               /\ At(results[c][m].val, 1) = seed

\* C1: on a grid of at least 2 points the call returns, and from the moment
\* each seed is set until the call returns, and in the array returned,
\* u[0] = 0 and u[1] = r[1]^(l+1), the power as the library of the run
\* computes it: the loop overwrites neither.
C1_SeedsKept ==
    \A c \in Callers :
        SeedsKept(c, Pow(libm, At(given[c], 1), arg[c].l + 1))

\* a call with l = 1 on the grid 0.1, 0.2, 0.3 has run its loop and
\* returned, with a library whose pow(0.2, 2) is the double on the far side
\* of the square, not the nearest one (0.2 * 0.2 rounded)
C1_Witness ==
    \E c \in Callers :
        /\ pc[c] = "returned"
        /\ given[c] = Tenths
        /\ arg[c].l = 1
        /\ At(Last(c).val, 1) # Square(At(given[c], 1))

\* C2 as claimed: in the wavefunction returned for a grid of N >= 3 points,
\* for every i in 1..N-2,
\*   u[i+1] * (1 + h^2/12 f[i+1])
\*       = 2 (1 - 5h^2/12 f[i]) u[i] - (1 + h^2/12 f[i-1]) u[i-1].
C2_Recurrence ==
    \A c \in Callers :
        (pc[c] = "returned" /\ Len(given[c]) >= 3) =>
            LET u == Last(c).val
                h == Sub(At(given[c], 1), At(given[c], 0))
                f == frame[c].f
            IN  \A i \in 1..(Len(u) - 2) :
                    Mul(At(u, i + 1), W12(h, At(f, i + 1)))
                      = Sub(Mul(C12(h, At(f, i)), At(u, i)),
                            Mul(W12(h, At(f, i - 1)), At(u, i - 1)))

\* u[i+1] is the quotient of the recurrence, as doubles give it
QuotientAt(u, h, f, i) ==
    At(u, i + 1)
      = Div(Sub(Mul(C12(h, At(f, i)), At(u, i)),
                Mul(W12(h, At(f, i - 1)), At(u, i - 1))),
            W12(h, At(f, i + 1)))

\* C2 as amended: in the wavefunction a call on a grid of N >= 3 points has
\* computed when it reaches its return statement (line 104 returns the array
\* as it stands), for every i in 1..N-2, u[i+1] is the double that
\*   (2 (1 - 5h^2/12 f[i]) u[i] - (1 + h^2/12 f[i-1]) u[i-1])
\*       / (1 + h^2/12 f[i+1])
\* comes to in double arithmetic: h^2 is h**2 as the C library's pow
\* returns it (the same double at every use), every other operation is
\* rounded to nearest and a division by zero gives an infinity or NaN; f is
\* the driver of the call, taken at i+1, i and i-1, and no index is skipped.
C2_RecurrenceAsComputed ==
    \A c \in Callers :
        (pc[c] = "L104" /\ Len(given[c]) >= 3) =>
            /\ Len(heap[frame[c].u]) = Len(given[c])
            /\ \A i \in 1..(Len(given[c]) - 2) :
                   QuotientAt(heap[frame[c].u],
                              Sub(At(given[c], 1), At(given[c], 0)),
                              frame[c].f, i)

\* a call on the grid 1, 2, 3, 4 with the barrier of height 12, k = -1 and
\* l = 0 is about to return: u[2] is the double just below 268, the
\* quotient rounded, and the equation as claimed fails at i = 1
C2_Witness ==
    \E c \in Callers :
        /\ pc[c] = "L104"
        /\ Len(given[c]) = 4
        /\ At(given[c], 0) = One
        /\ pot[2] = Num(12)
        /\ arg[c] = [k |-> -1, l |-> 0]
        /\ Less(Num(267), At(heap[frame[c].u], 2))
        /\ Less(At(heap[frame[c].u], 2), Num(268))
        /\ IsFinite(At(heap[frame[c].u], 3))

\* the call has computed its driver f and has not returned yet
HasDriver(c) == pc[c] \in {"L99", "L104"}

\* C3: the third argument is the squared wavenumber k2 and enters the driver
\* unmodified, f[i] = argument - V_eff[i] at every grid index (so a negative
\* argument gives a driver below -V_eff[i]).  Line 96 squares the argument.
C3_ArgumentUnmodified ==
    \A c \in Callers :
        HasDriver(c) =>
            \A i \in 0..(Len(given[c]) - 1) :
                At(frame[c].f, i) = Sub(Num(arg[c].k), At(frame[c].V_eff, i))

\* the call has computed V_eff and is about to read it (line 96 is the only
\* line that does)
HasVeff(c) == pc[c] = "L96"

\* C4: V_eff has one entry per grid point and, at every index 0..N-1,
\* V_eff[i] = potential(r[i]) + l(l+1) / r[i]^2, the potential taken at that
\* one point r[i] and l being the l of the seed u[1] = r[1]^(l+1).
C4_EffectivePotential ==
    \A c \in Callers :
        HasVeff(c) =>
            /\ Len(frame[c].V_eff) = Len(given[c])
            /\ \A i \in 0..(Len(given[c]) - 1) :
                   At(frame[c].V_eff, i)
                     = Add(At(ApplyV(pot, <<At(given[c], i)>>), 0),
                           Div(Num(arg[c].l * (arg[c].l + 1)),
                               Mul(At(given[c], i), At(given[c], i))))
            /\ At(heap[frame[c].u], 1)
                 = Pow(libm, At(given[c], 1), arg[c].l + 1)

\* a call with l = 1 on a grid 1, 2, 3, ... has computed V_eff: the
\* centrifugal term is 2 at index 0 and 2/9 at index 2
C4_Witness ==
    \E c \in Callers :
        /\ pc[c] = "L96"
        /\ arg[c].l = 1
        /\ Len(given[c]) >= 3
        /\ At(given[c], 0) = One
        /\ At(frame[c].V_eff, 0) = Add(pot[2], Num(2))
        /\ At(frame[c].V_eff, 2) = Add(pot[2], Div(Num(2), Num(9)))

\* C5: a call with l = 1 on a grid whose first point is 0 never returns a
\* wavefunction (it fails with a domain error); stated for the grids of 3 or
\* more points, which are long enough for the recurrence.
C5_ZeroOriginRaises ==
    \A c \in Callers :
        (Len(given[c]) >= 3 /\ At(given[c], 0) = Zero /\ arg[c].l = 1) =>
            pc[c] # "returned"

\* C6: no call goes on, or returns, after a loop pass whose denominator
\* 1 + h^2/12 f[i+1] was zero (it raises at that pass instead); stated for
\* the grids that start at a positive radius.
C6_ZeroDenominatorRaises ==
    \A c \in Callers :
        (HasDriver(c) /\ Less(Zero, At(given[c], 0))) =>
            \A j \in 1..Len(LoopRange(frame[c].N)) :
                j < frame[c].it =>
                    W12(frame[c].h, At(frame[c].f, LoopRange(frame[c].N)[j] + 1)) # Zero

\* C7: a call on a grid of fewer than 3 points never returns an array.
C7_ShortGridRaises ==
    \A c \in Callers :
        (pc[c] # "idle" /\ Len(given[c]) < 3) => pc[c] # "returned"

\* C8: any two finished calls given the same potential, the same grid, the
\* same wavenumber argument and the same l (two calls of one caller, or one
\* of each caller) ended alike: both raised, or both returned arrays equal
\* entry by entry.  The potential and the grid object are shared and no
\* caller writes to the grid, so equal k and l are equal inputs.
C8_Determinism ==
    \A c \in Callers, d \in Callers :
        arg[c] = arg[d] =>
            \A m \in 1..Len(results[c]), n \in 1..Len(results[d]) :
                /\ results[c][m].exc = results[d][n].exc
                /\ results[c][m].val = results[d][n].val

\* caller 1 has called twice and got arrays back, caller 2 has called with
\* other arguments, and a returned array has been written to in between
C8_Witness ==
    /\ Len(results[1]) = 2
    /\ results[1][1].exc = ""
    /\ Len(results[1][1].val) >= 3
    /\ pc[2] = "returned"
    /\ arg[2].l # arg[1].l
    /\ dirty # {}

\* every array some finished call returned, as <<caller, call number>>
Returned ==
    {x \in Callers \X (1..MaxRounds) :
        x[2] <= Len(results[x[1]]) /\ results[x[1]][x[2]].exc = ""}

\* C9: a call writes nothing but its own new array: the grid holds what it
\* held when the call was made; the array of every finished call is none of
\* the grid and the other calls' arrays; and every returned array that its
\* caller has not written to still holds what was returned, whatever calls
\* and caller writes came after.
C9_NoSideEffects ==
    /\ \A c \in Callers : pc[c] # "idle" => heap[GridRef] = given[c]
    /\ \A x \in Returned :
           LET e == results[x[1]][x[2]]
           IN  /\ e.u # GridRef
               /\ \A y \in Returned \ {x} : results[y[1]][y[2]].u # e.u
               /\ e.u \notin dirty => heap[e.u] = e.val

\* three arrays have been returned and a caller has written to one of them
C9_Witness ==
    /\ Cardinality(Returned) = 3
    /\ Len(heap[GridRef]) >= 3
    /\ dirty # {}
    /\ \A c \in Callers : pc[c] = "returned"

\* the call of caller c is over
Ended(c) == pc[c] \in {"returned", "raised"}

\* the call of caller c ended as `solo` did: the same exception, or the same
\* array returned
EndedAs(c, solo) ==
    /\ Last(c).exc = solo.exc
    /\ Last(c).val = solo.val

\* C10: under every interleaving of the lines of the two calls, a call ends
\* as numerov_solve run alone on its arguments ends: it raises the same
\* exception or returns the same array, and that array still holds those
\* values when the other call has finished.  What a call returned is
\* recorded when it returns and the array is compared with the record in
\* every state; the record is compared with the call run alone once both
\* calls are over.
C10_Independent ==
    \A c \in Callers :
        /\ pc[c] = "returned" => heap[Last(c).u] = Last(c).val
        /\ (\A d \in Callers : Ended(d)) =>
               EndedAs(c,
                 NumerovSolve(libm, pot, given[c], arg[c].k, arg[c].l))

\* both calls, with different k and different l, have returned different
\* arrays for a grid of 3 or more points
C10_Witness ==
    /\ \A c \in Callers : pc[c] = "returned"
    /\ arg[1].k # arg[2].k
    /\ arg[1].l # arg[2].l
    /\ Len(heap[GridRef]) >= 3
    /\ Last(1).val # Last(2).val

\* ------------------------------------ the claims of the prime notebook
\* n is a prime number: n >= 2 and no d with 2 <= d < n divides n
IsPrime(n) == n >= 2 /\ \A d \in 2..(n - 1) : n % d # 0

\* the indices of the primes in ns, increasing
PrimeIndices(ns) ==
    SelectSeq(Range(0, Len(ns)), LAMBDA i : IsPrime(At(ns, i)))

\* the call of fn is over
Ran(fn) == fn \in DOMAIN results

\* index is among the indices the call of fn returned
Returns(fn, index) ==
    \E j \in 1..Len(results[fn].val) : results[fn].val[j] = index

\* C11: brute_force returns exactly the indices i for which ns[i] is a
\* prime number (ns[i] >= 2 and no d with 2 <= d < ns[i] divides it), in
\* increasing order and each once: the indices of 0, 1 and negative values
\* are never returned, those of 2 and 3 always, and every index of a
\* repeated prime is.
C11_BruteForcePrimes ==
    Ran("brute_force") =>
        /\ results["brute_force"].exc = ""
        /\ results["brute_force"].val = PrimeIndices(test_array)
        /\ \A i \in 0..(Len(test_array) - 1) :
              /\ At(test_array, i) < 2 => ~Returns("brute_force", i)
              /\ At(test_array, i) \in {2, 3} => Returns("brute_force", i)
              /\ \A j \in 0..(Len(test_array) - 1) :
                    (At(test_array, j) = At(test_array, i)
                        /\ Returns("brute_force", i))
                    => Returns("brute_force", j)

\* brute_force has returned both indices of an array that is one prime twice
C11_Witness ==
    /\ Ran("brute_force")
    /\ Len(test_array) = 2
    /\ test_array[1] = test_array[2]
    /\ test_array[1] > 3
    /\ results["brute_force"].val = <<0, 1>>

\* C12 as claimed: on every array of integers, the empty one and those with
\* nothing but values below 2 or negative values included, the call of
\* even_smarter_search ends as the call of brute_force did: it does not
\* fail where brute_force returned, and it returns the same indices.
C12_SieveAgrees ==
    pc = "done" =>
        results["even_smarter_search"] = results["brute_force"]

\* Where even_smarter_search returns, it returns what brute_force returned.
C12_SieveAgreesWhereItReturns ==
    (pc = "done" /\ results["even_smarter_search"].exc = "") =>
        results["even_smarter_search"] = results["brute_force"]

\* C15: smarter_search, with the trial divisors 2..floor(sqrt(n)) instead of
\* 2..n-2, returns the same indices in the same order as brute_force on every
\* array of integers: squares of primes, 2, 3 and values below 2 included.
C15_SmarterAgrees ==
    Ran("smarter_search") =>
        results["smarter_search"] = results["brute_force"]

\* smarter_search has returned for an array of the square of a prime and a
\* prime, and has returned the index of the prime alone
C15_Witness ==
    /\ Ran("smarter_search")
    /\ Len(test_array) = 2
    /\ test_array[1] \in {4, 9, 25}
    /\ test_array[2] \in {2, 3, 13}
    /\ results["smarter_search"].val = <<1>>

\* the marking loop of even_smarter_search has finished, and the call has
\* not returned yet
Marked == pc \in {"L219", "L220", "L221"}

\* C16: once the marking loop over i = 2..floor(sqrt(max_n)) has finished,
\* the sieve has the entries 0..max_n and sieve[n] is true if and only if n
\* is prime, for every n of them; max_n is the maximum of ns.
C16_SieveHoldsPrimes ==
    Marked =>
        /\ frame.max_n = Max(test_array)
        /\ Len(frame.sieve) = frame.max_n + 1
        /\ \A n \in 0..frame.max_n : At(frame.sieve, n) <=> IsPrime(n)

\* the marking loop has finished on a sieve up to 16 at least: the passes for
\* 2 and 3 have marked, the pass for 4 found 4 marked and left the sieve alone
C16_Witness ==
    /\ pc = "L219"
    /\ frame.max_n >= 16
    /\ Len(frame.rng) >= 3
    /\ ~At(frame.sieve, 9)
    /\ At(frame.sieve, 13)

\* ------------------------------------ further claims of the solver notebook
\* the call of caller c has its array u and has not returned yet
HasU(c) == pc[c] \in {"L89", "L90", "L93", "L96", "L99", "L104"}

\* the indices of u assigned so far are 0, 1, 2, ... in this order, each once;
\* a loop pass about to run reads u[i] and u[i-1] among them, after it - 1
\* passes; past the loop N - 2 passes have run and 0..N-1 are all assigned
ScanOrder(c) ==
    /\ pc[c] # "idle" =>
          \A j \in 1..Len(assigned[c]) : assigned[c][j] = j - 1
    /\ pc[c] = "L99" =>
          /\ Len(assigned[c]) = frame[c].it + 1
          /\ frame[c].it <= Len(LoopRange(frame[c].N)) =>
                LoopRange(frame[c].N)[frame[c].it] = frame[c].it
    /\ pc[c] \in {"L104", "returned"} =>
          /\ frame[c].N >= 2
          /\ frame[c].it - 1 = frame[c].N - 2
          /\ Len(assigned[c]) = frame[c].N

\* a step of the call leaves every entry of u assigned before it as it is
Kept(c) ==
    HasU(c) =>
        \A j \in 1..Len(assigned[c]) :
            At(heap'[frame[c].u], assigned[c][j])
              = At(heap[frame[c].u], assigned[c][j])

\* C14: the recurrence is a strictly sequential scan.  On a grid of N >= 2
\* points the loop runs exactly N - 2 passes and ends; u[0], u[1], u[2], ...,
\* u[N-1] are assigned in increasing order, each exactly once; a pass reads
\* u[i] and u[i-1] after they were assigned; no step of the call changes an
\* entry assigned before; at return every index 0..N-1 has been assigned.
C14_SequentialScan ==
    [][\A c \in Callers : ScanOrder(c) /\ ScanOrder(c)' /\ Kept(c)]_vars

\* a call on a grid of 4 points has returned after its 2 passes
C14_Witness ==
    \E c \in Callers :
        /\ pc[c] = "returned"
        /\ Len(given[c]) = 4
        /\ frame[c].it = 3
        /\ assigned[c] = <<0, 1, 2, 3>>

\* C17 as claimed: square_well(r, r_0, V_0) is -V_0 where r < r_0 and 0 where
\* r >= r_0, the boundary r = r_0 in the zero region.  Read off V_eff of a
\* call with l = 0 on a grid of positive radii, where V_eff is V(r) as
\* square_well returned it.
C17_SquareWellAsDocumented ==
    \A c \in Callers :
        (HasVeff(c) /\ arg[c].l = 0 /\ Less(Zero, At(given[c], 0))) =>
            \A i \in 0..(Len(given[c]) - 1) :
                At(frame[c].V_eff, i) =
                    IF Less(At(given[c], i), pot[1]) THEN Neg(pot[2]) ELSE Zero

\* the values of a call with l = 0 that has returned are all finite
AllFinite(c) == \A j \in 1..Len(Last(c).val) : IsFinite(Last(c).val[j])

\* no pass of the returned call of caller c had a zero denominator
NonzeroDenominators(c) ==
    \A i \in 1..(Len(given[c]) - 2) :
        W12(frame[c].h, At(frame[c].f, i + 1)) # Zero

\* C18 as claimed: with l = 0 the centrifugal term adds nothing, V_eff[i] =
\* potential(r[i]) at every index, also on a grid that starts at r[0] = 0;
\* and a call with l = 0 whose denominators are all non-zero returns finite
\* values only.
C18_NoCentrifugalTermAtZeroL ==
    \A c \in Callers :
        /\ (HasVeff(c) /\ arg[c].l = 0) =>
              \A i \in 0..(Len(given[c]) - 1) :
                  /\ At(frame[c].V_eff, i) = At(ApplyV(pot, given[c]), i)
                  /\ IsFinite(At(frame[c].V_eff, i))
        /\ (pc[c] = "returned" /\ arg[c].l = 0 /\ NonzeroDenominators(c)) =>
              AllFinite(c)

\* C18 on the grids of positive radii, where 0/r^2 is 0
C18_NoCentrifugalTermAwayFromOrigin ==
    \A c \in Callers :
        /\ (HasVeff(c) /\ arg[c].l = 0 /\ Less(Zero, At(given[c], 0))) =>
              \A i \in 0..(Len(given[c]) - 1) :
                  /\ At(frame[c].V_eff, i) = At(ApplyV(pot, given[c]), i)
                  /\ IsFinite(At(frame[c].V_eff, i))
        /\ (pc[c] = "returned" /\ arg[c].l = 0 /\ Less(Zero, At(given[c], 0))
               /\ NonzeroDenominators(c)) =>
              AllFinite(c)

====
